---- MODULE Spec2Model ----
(***************************************************************************)
(* Model of the Shopkeeper inventory / sales manager of src/apps.py.       *)
(*                                                                         *)
(* State: the in-memory catalog (self.inventory, a dict name -> Item), the *)
(* in-memory sales log (self.sales, a list of dicts), and the two files    *)
(* the manager writes (inventory.json, sales.json).  One action per public *)
(* mutating method; each action contains the save_* calls the method       *)
(* makes.  Prices are Python floats in the program; the model draws them   *)
(* from a small range of integers, on which float arithmetic is exact.     *)
(* Quantities are Python ints (unbounded); the next-state relations keep   *)
(* them, and the length of the sales log, within the bounds below.         *)
(*                                                                         *)
(* An optional value (an argument that may be None, a method's result) is  *)
(* a sequence: << >> is None, <<v>> is the value v.                        *)
(***************************************************************************)
EXTENDS Integers, Sequences, FiniteSets, TLC

VARIABLES
    inventory,  \* self.inventory : [subset of Names -> Item]
    sales,      \* self.sales     : sequence of sale records
    disk,       \* file path -> file content
    last,       \* the last call: method, result, message printed, files written
    hist,       \* history variable: per name, the run of add_item calls
                \* made on it since the call that created its entry
    ledger      \* history variable: what the calls made so far add up to

vars == <<inventory, sales, disk, last, hist, ledger>>

-----------------------------------------------------------------------------
(* Bounds of the model *)

MaxQty == 1      \* largest quantity of an item under Spec and SpecLog
MaxRunQty == 2   \* largest quantity of an item under SpecRuns
MaxSales == 1    \* longest sales log under Spec and SpecRuns
MaxLog == 2      \* longest sales log under SpecLog
MaxFailures == 1 \* most writes that fail in a run of SpecFail

Names == {"a", "b"}
Prices == {0, 1}             \* prices a caller passes
QtyInputs == {-1, 0, 1}      \* quantities a caller passes: int(input(...)) has any sign
LogQtys == {0, 1}            \* quantities the callers of SpecLog pass
FailPrices == {2}            \* the price the callers of SpecFail, SpecReport and SpecStock pass
Stock == -1 .. MaxQty        \* quantities the catalog is kept within
RunStock == -1 .. MaxRunQty  \* the same under SpecRuns

None == << >>
Some(v) == <<v>>
Optional(S) == {None} \cup {Some(v) : v \in S}
OptPrices == Optional(Prices)
OptQtyInputs == Optional(QtyInputs)
OptLogQtys == Optional(LogQtys)
OptFailPrices == Optional(FailPrices)

-----------------------------------------------------------------------------
(* Item and its dict form *)

Item(name, price, quantity) ==
    [name |-> name, price |-> price, quantity |-> quantity]

to_dict(item) ==
    [name |-> item.name, price |-> item.price, quantity |-> item.quantity]

from_dict_swapped(data) ==
    Item(data.name, data.quantity, data.price)

from_dict(data) ==
    Item(data.name, data.price, data.quantity)

-----------------------------------------------------------------------------
(* The two files *)

inventory_file == "inventory.json"
sales_file == "sales.json"

Absent == [kind |-> "absent", value |-> << >>]        \* os.path.exists is False
Malformed == [kind |-> "malformed", value |-> << >>]  \* json.load raises JSONDecodeError
Json(v) == [kind |-> "json", value |-> v]             \* the text json.dump(v, f) writes

EmptyDict == [n \in {} |-> 0]

\* a plausible slip: the file is not written
save_inventory_skipped(d, inv) ==
    d

save_inventory(d, inv) ==
    [d EXCEPT ![inventory_file] = Json([n \in DOMAIN inv |-> to_dict(inv[n])])]

save_sales_skipped(d, s) ==
    d

save_sales(d, s) ==
    [d EXCEPT ![sales_file] = Json(s)]

\* a plausible slip: a file that does not parse is replaced like a missing one
load_inventory_recreates(d, inv) ==
    IF d[inventory_file].kind \in {"absent", "malformed"}
    THEN [disk |-> [d EXCEPT ![inventory_file] = Json(EmptyDict)],
          inventory |-> EmptyDict]
    ELSE [disk |-> d,
          inventory |-> [n \in DOMAIN d[inventory_file].value |->
                            from_dict(d[inventory_file].value[n])]]

\* load_inventory: the disk and the catalog it leaves, inv being the catalog
\* __init__ has set
load_inventory(d, inv) ==
    IF d[inventory_file].kind = "absent"
    THEN [disk |-> [d EXCEPT ![inventory_file] = Json(EmptyDict)], inventory |-> inv]
    ELSE IF d[inventory_file].kind = "malformed"
         THEN [disk |-> d, inventory |-> EmptyDict]
         ELSE [disk |-> d,
               inventory |-> [n \in DOMAIN d[inventory_file].value |->
                                 from_dict(d[inventory_file].value[n])]]

load_sales(d, s) ==
    IF d[sales_file].kind = "absent"
    THEN [disk |-> [d EXCEPT ![sales_file] = Json(<< >>)], sales |-> s]
    ELSE IF d[sales_file].kind = "malformed"
         THEN [disk |-> d, sales |-> << >>]
         ELSE [disk |-> d, sales |-> d[sales_file].value]

-----------------------------------------------------------------------------
(* The record of a call: the method, the value it returns, the message it  *)
(* prints ("" for none) and the files it writes, in order                  *)

Call(op, ret, out, writes) ==
    [op |-> op, ret |-> ret, out |-> out, writes |-> writes]

-----------------------------------------------------------------------------
(* Shopkeeper.__init__ *)

\* the disks a manager is constructed on: each file missing or unparseable
InitialDisks ==
    [{inventory_file, sales_file} -> {Absent, Malformed}]

NoRun == [onlyAdds |-> FALSE, added |-> 0, first |-> 0]

\* the ledger of a manager that has made no call and loaded nothing: the
\* writes that failed, the totals of the records loaded, the totals sell_item
\* returned, the totals of the records of sell_item calls that raised, and
\* per name the quantities passed to add_item and whether a remove_item or
\* an update_item has changed the entry
NoLedger ==
    [failures |-> 0, loaded |-> 0, returned |-> 0, unreturned |-> 0,
     added |-> [n \in Names |-> 0], touched |-> [n \in Names |-> FALSE]]

Init ==
    \E d0 \in InitialDisks :
        LET li == load_inventory(d0, EmptyDict)
            ls == load_sales(li.disk, << >>)
        IN  /\ inventory = li.inventory
            /\ sales = ls.sales
            /\ disk = ls.disk
            /\ last = Call("__init__", None, "", << >>)
            /\ hist = [n \in Names |-> NoRun]
            /\ ledger = NoLedger

\* a new manager constructed on the files as they are: lines 26-31
Shopkeeper ==
    LET li == load_inventory(disk, EmptyDict)
        ls == load_sales(li.disk, << >>)
    IN  /\ inventory' = li.inventory
        /\ sales' = ls.sales
        /\ disk' = ls.disk
        /\ last' = Call("__init__", None, "", << >>)

-----------------------------------------------------------------------------
(* Shopkeeper.add_item *)

\* a plausible slip: the price passed replaces the price of an existing entry
add_item_inventory_reprices(inv, name, price, quantity) ==
    [n \in DOMAIN inv \cup {name} |->
        IF n = name
        THEN Item(name, price,
                  IF name \in DOMAIN inv THEN inv[name].quantity + quantity
                                         ELSE quantity)
        ELSE inv[n]]

\* the catalog after lines 34-37
add_item_inventory(inv, name, price, quantity) ==
    IF name \in DOMAIN inv
    THEN [inv EXCEPT ![name].quantity = @ + quantity]
    ELSE [n \in DOMAIN inv \cup {name} |->
             IF n = name THEN Item(name, price, quantity) ELSE inv[n]]

add_item(name, price, quantity) ==
    /\ inventory' = add_item_inventory(inventory, name, price, quantity)
    /\ disk' = save_inventory(disk, inventory')
    /\ sales' = sales
    /\ last' = Call("add_item", None, "", <<inventory_file>>)

-----------------------------------------------------------------------------
(* Shopkeeper.remove_item *)

\* a plausible slip: the entry is emptied and kept
remove_item_inventory_zeroes(inv, name) ==
    [inv EXCEPT ![name].quantity = 0]

\* the catalog after line 42, del self.inventory[name]
remove_item_inventory(inv, name) ==
    [n \in DOMAIN inv \ {name} |-> inv[n]]

\* a plausible slip: the save is made after the if, on both paths
remove_item_saves_always(name) ==
    /\ IF name \in DOMAIN inventory
       THEN /\ inventory' = remove_item_inventory(inventory, name)
            /\ disk' = save_inventory(disk, inventory')
            /\ last' = Call("remove_item", None, "removed", <<inventory_file>>)
       ELSE /\ inventory' = inventory
            /\ disk' = save_inventory(disk, inventory')
            /\ last' = Call("remove_item", None, "not found", <<inventory_file>>)
    /\ sales' = sales

remove_item(name) ==
    /\ IF name \in DOMAIN inventory
       THEN /\ inventory' = remove_item_inventory(inventory, name)
            /\ disk' = save_inventory(disk, inventory')
            /\ last' = Call("remove_item", None, "removed", <<inventory_file>>)
       ELSE /\ inventory' = inventory
            /\ disk' = disk
            /\ last' = Call("remove_item", None, "not found", << >>)
    /\ sales' = sales

-----------------------------------------------------------------------------
(* Shopkeeper.update_item; price and quantity are optional *)

\* a plausible slip: a quantity left out is stored as 0
update_item_item_zeroes(item, price, quantity) ==
    [item EXCEPT !.price = IF price # None THEN price[1] ELSE @,
                 !.quantity = IF quantity # None THEN quantity[1] ELSE 0]

\* the item after lines 50-53
update_item_item(item, price, quantity) ==
    [item EXCEPT !.price = IF price # None THEN price[1] ELSE @,
                 !.quantity = IF quantity # None THEN quantity[1] ELSE @]

update_item(name, price, quantity) ==
    /\ IF name \in DOMAIN inventory
       THEN /\ inventory' = [inventory EXCEPT
                                ![name] = update_item_item(@, price, quantity)]
            /\ disk' = save_inventory(disk, inventory')
            /\ last' = Call("update_item", None, "updated", <<inventory_file>>)
       ELSE /\ inventory' = inventory
            /\ disk' = disk
            /\ last' = Call("update_item", None, "not found", << >>)
    /\ sales' = sales

-----------------------------------------------------------------------------
(* Shopkeeper.sell_item *)

\* a plausible slip: the stock is not compared with the request
sell_item_available_unchecked(inv, name, quantity) ==
    name \in DOMAIN inv

\* a plausible slip: the comparison is off by one
sell_item_available_off_by_one(inv, name, quantity) ==
    name \in DOMAIN inv /\ inv[name].quantity + 1 >= quantity

\* the condition of line 60
sell_item_available(inv, name, quantity) ==
    name \in DOMAIN inv /\ inv[name].quantity >= quantity

\* a plausible slip: one unit is taken whatever the request
sell_item_inventory_takes_one(inv, name, quantity) ==
    [inv EXCEPT ![name].quantity = @ - 1]

\* the catalog after line 61
sell_item_inventory(inv, name, quantity) ==
    [inv EXCEPT ![name].quantity = @ - quantity]

\* a plausible slip: the total is computed from the stock left
sell_item_total_price_of_stock(inv, name, quantity) ==
    inv[name].price * inv[name].quantity

\* line 62, evaluated on the catalog line 61 leaves
sell_item_total_price(inv, name, quantity) ==
    inv[name].price * quantity

\* the dict line 63 builds
sell_item_record(name, quantity, total_price) ==
    [name |-> name, quantity |-> quantity, total_price |-> total_price]

\* a plausible slip: the record is inserted at the head of the list
sell_item_sales_at_head(s, record) ==
    <<record>> \o s

\* the sales log after line 63, self.sales.append
sell_item_sales(s, record) ==
    Append(s, record)

\* a plausible slip: the sales file is written before the inventory file
sell_item_writes_sales_first ==
    <<sales_file, inventory_file>>

\* the files lines 64-65 write, in order
sell_item_writes ==
    <<inventory_file, sales_file>>

sell_item(name, quantity) ==
    IF sell_item_available(inventory, name, quantity)
    THEN /\ inventory' = sell_item_inventory(inventory, name, quantity)
         /\ LET total_price == sell_item_total_price(inventory', name, quantity)
            IN  /\ sales' = sell_item_sales(sales,
                                sell_item_record(name, quantity, total_price))
                /\ disk' = save_sales(save_inventory(disk, inventory'), sales')
                /\ last' = Call("sell_item", Some(total_price), "",
                                sell_item_writes)
    ELSE /\ inventory' = inventory
         /\ sales' = sales
         /\ disk' = disk
         /\ last' = Call("sell_item", Some(0), "unavailable", << >>)

-----------------------------------------------------------------------------
(* Shopkeeper.search_item and Shopkeeper.generate_report change nothing;   *)
(* each is the value it prints                                             *)

\* the branch of line 88
search_item(inv, name) ==
    IF name \in DOMAIN inv THEN "found" ELSE "not found"

RECURSIVE generate_report_total_of_quantities(_)
\* a plausible slip: the quantities are summed
generate_report_total_of_quantities(s) ==
    IF s = << >>
    THEN 0
    ELSE generate_report_total_of_quantities(SubSeq(s, 1, Len(s) - 1))
            + s[Len(s)].quantity

RECURSIVE generate_report_total(_)
\* line 96, sum(sale['total_price'] for sale in self.sales)
generate_report_total(s) ==
    IF s = << >>
    THEN 0
    ELSE generate_report_total(SubSeq(s, 1, Len(s) - 1)) + s[Len(s)].total_price

-----------------------------------------------------------------------------
(* A write that fails.  open(file, 'w') either raises and leaves the file  *)
(* as it was, or empties the file, and json.dump then raises with nothing  *)
(* or a part of the text written: json.load raises JSONDecodeError on both.*)
(* The exception leaves the method at the failing save, after the          *)
(* assignments the method has made to the catalog and the sales log.       *)

Leaves == {"untouched", "truncated"}

failed_write(d, file, left) ==
    IF left = "truncated" THEN [d EXCEPT ![file] = Malformed] ELSE d

\* the write of one file by save_inventory or save_sales
write(d, file, inv, s) ==
    IF file = inventory_file THEN save_inventory(d, inv) ELSE save_sales(d, s)

add_item_raises(name, price, quantity, left) ==
    /\ inventory' = add_item_inventory(inventory, name, price, quantity)
    /\ disk' = failed_write(disk, inventory_file, left)
    /\ sales' = sales
    /\ last' = Call("add_item", None, "raised", << >>)

remove_item_raises(name, left) ==
    /\ name \in DOMAIN inventory
    /\ inventory' = remove_item_inventory(inventory, name)
    /\ disk' = failed_write(disk, inventory_file, left)
    /\ sales' = sales
    /\ last' = Call("remove_item", None, "raised", << >>)

update_item_raises(name, price, quantity, left) ==
    /\ name \in DOMAIN inventory
    /\ inventory' = [inventory EXCEPT
                        ![name] = update_item_item(@, price, quantity)]
    /\ disk' = failed_write(disk, inventory_file, left)
    /\ sales' = sales
    /\ last' = Call("update_item", None, "raised", << >>)

\* the write that fails is the first or the second of sell_item_writes; the
\* writes before it are made, the writes after it are not
sell_item_raises(name, quantity, failing, left) ==
    /\ sell_item_available(inventory, name, quantity)
    /\ inventory' = sell_item_inventory(inventory, name, quantity)
    /\ LET total_price == sell_item_total_price(inventory', name, quantity)
           made == SubSeq(sell_item_writes, 1, failing - 1)
           before == IF failing = 1
                     THEN disk
                     ELSE write(disk, sell_item_writes[1], inventory', sales')
       IN  /\ sales' = sell_item_sales(sales,
                           sell_item_record(name, quantity, total_price))
           /\ disk' = failed_write(before, sell_item_writes[failing], left)
           /\ last' = Call("sell_item", None, "raised", made)

-----------------------------------------------------------------------------
(* The history variable.  A run on a name starts when add_item creates its *)
(* entry and lasts while add_item is the only method called with the name; *)
(* the run records the sum of the quantities and the first price passed.   *)

HistAdd(name, price, quantity) ==
    hist' = [hist EXCEPT ![name] =
                IF name \notin DOMAIN inventory
                THEN [onlyAdds |-> TRUE, added |-> quantity, first |-> price]
                ELSE IF @.onlyAdds
                     THEN [@ EXCEPT !.added = @ + quantity]
                     ELSE @]

HistOther(name) ==
    hist' = [hist EXCEPT ![name] = NoRun]

\* the ledger counts a write that failed
LedgerFailure ==
    ledger' = [ledger EXCEPT !.failures = @ + 1]

\* the ledger of the quantities: add_item with a quantity, and a remove_item
\* or update_item that finds the name
LedgerAdd(name, quantity) ==
    ledger' = [ledger EXCEPT
                  !.added[name] = IF ledger.touched[name] THEN 0 ELSE @ + quantity]

LedgerChange(name) ==
    ledger' = IF name \in DOMAIN inventory
              THEN [ledger EXCEPT !.touched[name] = TRUE, !.added[name] = 0]
              ELSE ledger

\* the ledger of the totals: a sell_item that returns, a sell_item that
\* raises in a save after it has appended its record, and the construction
\* of a new manager
LedgerSell(name, quantity) ==
    ledger' = IF sell_item_available(inventory, name, quantity)
              THEN [ledger EXCEPT !.returned = @ + last'.ret[1]]
              ELSE ledger

LedgerSellRaises ==
    ledger' = [ledger EXCEPT
                  !.unreturned = @ + sales'[Len(sales')].total_price,
                  !.failures = @ + 1]

LedgerShopkeeper ==
    ledger' = [NoLedger EXCEPT
                  !.failures = ledger.failures,
                  !.loaded = generate_report_total(sales')]

-----------------------------------------------------------------------------
(* Specifications *)

Bounded ==
    /\ \A n \in DOMAIN inventory : inventory[n].quantity \in Stock
    /\ Len(sales) <= MaxSales

BoundedRuns ==
    /\ \A n \in DOMAIN inventory : inventory[n].quantity \in RunStock
    /\ Len(sales) <= MaxSales

BoundedLog ==
    /\ \A n \in DOMAIN inventory : inventory[n].quantity \in Stock
    /\ Len(sales) <= MaxLog

\* every call, with quantities of any sign; the history variable is left alone
Next ==
    \/ \E name \in Names, price \in Prices, quantity \in QtyInputs :
           add_item(name, price, quantity) /\ hist' = hist /\ ledger' = ledger
                 /\ Bounded'
    \/ \E name \in Names :
           remove_item(name) /\ hist' = hist /\ ledger' = ledger
                 /\ Bounded'
    \/ \E name \in Names, price \in OptPrices, quantity \in OptQtyInputs :
           update_item(name, price, quantity) /\ hist' = hist /\ ledger' = ledger
                 /\ Bounded'
    \/ \E name \in Names, quantity \in QtyInputs :
           sell_item(name, quantity) /\ hist' = hist /\ ledger' = ledger
                 /\ Bounded'

Spec == Init /\ [][Next]_vars

\* add_item with quantities of any sign, the other calls with quantities that
\* are not negative; the history variable follows the runs of add_item
NextRuns ==
    \/ \E name \in Names, price \in Prices, quantity \in QtyInputs :
           add_item(name, price, quantity) /\ HistAdd(name, price, quantity)
                 /\ ledger' = ledger /\ BoundedRuns'
    \/ \E name \in Names :
           remove_item(name) /\ HistOther(name) /\ ledger' = ledger
                 /\ BoundedRuns'
    \/ \E name \in Names, price \in OptPrices, quantity \in OptLogQtys :
           update_item(name, price, quantity) /\ HistOther(name) /\ ledger' = ledger
                 /\ BoundedRuns'
    \/ \E name \in Names, quantity \in LogQtys :
           sell_item(name, quantity) /\ HistOther(name) /\ ledger' = ledger
                 /\ BoundedRuns'

SpecRuns == Init /\ [][NextRuns]_vars

\* every call, with quantities that are not negative and a longer sales log
NextLog ==
    \/ \E name \in Names, price \in Prices, quantity \in LogQtys :
           add_item(name, price, quantity) /\ hist' = hist /\ ledger' = ledger
                 /\ BoundedLog'
    \/ \E name \in Names :
           remove_item(name) /\ hist' = hist /\ ledger' = ledger
                 /\ BoundedLog'
    \/ \E name \in Names, price \in OptPrices, quantity \in OptLogQtys :
           update_item(name, price, quantity) /\ hist' = hist /\ ledger' = ledger
                 /\ BoundedLog'
    \/ \E name \in Names, quantity \in LogQtys :
           sell_item(name, quantity) /\ hist' = hist /\ ledger' = ledger
                 /\ BoundedLog'

SpecLog == Init /\ [][NextLog]_vars

\* every call of Next, and the construction of a new manager on the files
NextRestart ==
    \/ Next
    \/ Shopkeeper /\ hist' = hist /\ ledger' = ledger

SpecRestart == Init /\ [][NextRestart]_vars

BoundedFail ==
    Bounded /\ ledger.failures <= MaxFailures

\* every call with quantities that are not negative and one price, the
\* construction of a new manager, and every call that raises in a save
NextFail ==
    \/ \E name \in Names, price \in FailPrices, quantity \in LogQtys :
           add_item(name, price, quantity) /\ hist' = hist /\ ledger' = ledger
                 /\ BoundedFail'
    \/ \E name \in Names :
           remove_item(name) /\ hist' = hist /\ ledger' = ledger
                 /\ BoundedFail'
    \/ \E name \in Names, price \in OptFailPrices, quantity \in OptLogQtys :
           update_item(name, price, quantity) /\ hist' = hist /\ ledger' = ledger
                 /\ BoundedFail'
    \/ \E name \in Names, quantity \in LogQtys :
           sell_item(name, quantity) /\ hist' = hist /\ ledger' = ledger
                 /\ BoundedFail'
    \/ Shopkeeper /\ hist' = hist /\ ledger' = ledger
    \/ \E name \in Names, price \in FailPrices, quantity \in LogQtys, left \in Leaves :
           add_item_raises(name, price, quantity, left) /\ hist' = hist
                 /\ LedgerFailure /\ BoundedFail'
    \/ \E name \in Names, left \in Leaves :
           remove_item_raises(name, left) /\ hist' = hist
                 /\ LedgerFailure /\ BoundedFail'
    \/ \E name \in Names, price \in OptFailPrices, quantity \in OptLogQtys,
          left \in Leaves :
           update_item_raises(name, price, quantity, left) /\ hist' = hist
                 /\ LedgerFailure /\ BoundedFail'
    \/ \E name \in Names, quantity \in LogQtys, failing \in 1 .. 2, left \in Leaves :
           sell_item_raises(name, quantity, failing, left) /\ hist' = hist
                 /\ LedgerFailure /\ BoundedFail'

SpecFail == Init /\ [][NextFail]_vars

BoundedReport ==
    BoundedLog /\ ledger.failures <= MaxFailures

\* every call with quantities that are not negative, sell_item calls that
\* raise in a save and the construction of a new manager; the ledger follows
\* the totals
NextReport ==
    \/ \E name \in Names, price \in FailPrices, quantity \in LogQtys :
           add_item(name, price, quantity) /\ hist' = hist /\ ledger' = ledger
                 /\ BoundedReport'
    \/ \E name \in Names :
           remove_item(name) /\ hist' = hist /\ ledger' = ledger
                 /\ BoundedReport'
    \/ \E name \in Names, price \in OptFailPrices, quantity \in OptLogQtys :
           update_item(name, price, quantity) /\ hist' = hist /\ ledger' = ledger
                 /\ BoundedReport'
    \/ \E name \in Names, quantity \in LogQtys :
           sell_item(name, quantity) /\ hist' = hist
                 /\ LedgerSell(name, quantity) /\ BoundedReport'
    \/ \E name \in Names, quantity \in LogQtys, failing \in 1 .. 2, left \in Leaves :
           sell_item_raises(name, quantity, failing, left) /\ hist' = hist
                 /\ LedgerSellRaises /\ BoundedReport'
    \/ Shopkeeper /\ hist' = hist /\ LedgerShopkeeper

SpecReport == Init /\ [][NextReport]_vars

\* every call, with quantities of any sign in add_item and sell_item; the
\* ledger follows the quantities
NextStock ==
    \/ \E name \in Names, price \in FailPrices, quantity \in QtyInputs :
           add_item(name, price, quantity) /\ hist' = hist
                 /\ LedgerAdd(name, quantity) /\ Bounded'
    \/ \E name \in Names :
           remove_item(name) /\ hist' = hist
                 /\ LedgerChange(name) /\ Bounded'
    \/ \E name \in Names, price \in OptFailPrices, quantity \in OptLogQtys :
           update_item(name, price, quantity) /\ hist' = hist
                 /\ LedgerChange(name) /\ Bounded'
    \/ \E name \in Names, quantity \in QtyInputs :
           sell_item(name, quantity) /\ hist' = hist /\ ledger' = ledger
                 /\ Bounded'

SpecStock == Init /\ [][NextStock]_vars

-----------------------------------------------------------------------------
(* Properties *)

NonNegative(inv) ==
    \A n \in DOMAIN inv : inv[n].quantity >= 0

IsPrefix(s, t) ==
    Len(s) <= Len(t) /\ SubSeq(t, 1, Len(s)) = s

\* the content of the catalog file is the catalog inv, entry by entry
HoldsCatalog(file, inv) ==
    /\ file.kind = "json"
    /\ DOMAIN file.value = DOMAIN inv
    /\ \A n \in DOMAIN inv :
           /\ file.value[n].name = inv[n].name
           /\ file.value[n].price = inv[n].price
           /\ file.value[n].quantity = inv[n].quantity

\* the content of the sales file is the sales log s, record by record
HoldsSales(file, s) ==
    /\ file.kind = "json"
    /\ Len(file.value) = Len(s)
    /\ \A i \in 1 .. Len(s) : file.value[i] = s[i]

\* two catalogs have the same names, and under each name an item of the same
\* name, price and quantity
SameCatalog(a, b) ==
    /\ DOMAIN a = DOMAIN b
    /\ \A n \in DOMAIN a :
           /\ a[n].name = b[n].name
           /\ a[n].price = b[n].price
           /\ a[n].quantity = b[n].quantity

\* the files a call has written
Written(call) ==
    {call.writes[i] : i \in 1 .. Len(call.writes)}

\* a call that changed the catalog or the sales log and returned
Completed(call) ==
    /\ call.op \in {"add_item", "remove_item", "update_item", "sell_item"}
    /\ call.out \notin {"raised", "not found", "unavailable"}

RECURSIVE SoldQuantity(_, _)
\* the sum of the quantities of the records of s that name the item
SoldQuantity(s, name) ==
    IF s = << >>
    THEN 0
    ELSE SoldQuantity(Tail(s), name)
            + (IF Head(s).name = name THEN Head(s).quantity ELSE 0)

\* the quantity the catalog holds under a name, 0 for a name it lacks
InStock(inv, name) ==
    IF name \in DOMAIN inv THEN inv[name].quantity ELSE 0

\* C1: in every state reached by add_item, remove_item, update_item and
\* sell_item calls from an empty catalog, every item of the catalog has a
\* quantity >= 0.
C1_QuantityNeverNegative ==
    NonNegative(inventory)

\* C2: from a catalog whose quantities are not negative, sell_item leaves
\* every quantity >= 0 and is all-or-nothing: either the whole request is
\* deducted and exactly one record is appended to the sales log, or neither
\* the catalog nor the sales log changes.
C2_SellAllOrNothing ==
    [][(last'.op = "sell_item" /\ NonNegative(inventory)) =>
       \A n \in Names, q \in QtyInputs :
          sell_item(n, q) =>
              /\ NonNegative(inventory')
              /\ \/ /\ n \in DOMAIN inventory
                    /\ DOMAIN inventory' = DOMAIN inventory
                    /\ inventory'[n].quantity = inventory[n].quantity - q
                    /\ \A m \in DOMAIN inventory \ {n} : inventory'[m] = inventory[m]
                    /\ Len(sales') = Len(sales) + 1
                    /\ IsPrefix(sales, sales')
                    /\ sales'[Len(sales')].name = n
                    /\ sales'[Len(sales')].quantity = q
                 \/ /\ inventory' = inventory
                    /\ sales' = sales]_vars

C2_Witness ==
    /\ last.op = "sell_item"
    /\ last.out = ""
    /\ Len(sales) > 0
    /\ sales[Len(sales)].quantity > 0
    /\ NonNegative(inventory)

\* C3: sell_item(name, q) with name in the catalog and a quantity >= q takes
\* exactly q from the item's quantity, leaves its price and every other item
\* as they were, appends the one record {name, q, price * q} at the end of
\* the sales log, writes the catalog file and the sales file, and returns
\* price * q.
C3_SellSuccess ==
    [][last'.op = "sell_item" =>
       \A n \in Names, q \in QtyInputs :
          (/\ n \in DOMAIN inventory
           /\ inventory[n].quantity >= q
           /\ sell_item(n, q)) =>
              /\ DOMAIN inventory' = DOMAIN inventory
              /\ inventory'[n].quantity = inventory[n].quantity - q
              /\ inventory'[n].price = inventory[n].price
              /\ inventory'[n].name = inventory[n].name
              /\ \A m \in DOMAIN inventory \ {n} : inventory'[m] = inventory[m]
              /\ sales' = sales \o <<[name |-> n, quantity |-> q,
                                      total_price |-> inventory[n].price * q]>>
              /\ last'.writes = <<inventory_file, sales_file>>
              /\ HoldsCatalog(disk'[inventory_file], inventory')
              /\ HoldsSales(disk'[sales_file], sales')
              /\ last'.ret = Some(inventory[n].price * q)]_vars

C3_Witness ==
    /\ last.op = "sell_item"
    /\ last.ret = Some(1)
    /\ Len(sales) > 0
    /\ sales[Len(sales)].total_price = 1

\* C4: sell_item(name, q) with name not in the catalog, or with a quantity
\* < q, returns 0 and leaves the catalog, the sales log and both files as
\* they were; it writes no file.
C4_SellFailure ==
    [][last'.op = "sell_item" =>
       \A n \in Names, q \in QtyInputs :
          (/\ ~ (n \in DOMAIN inventory /\ inventory[n].quantity >= q)
           /\ sell_item(n, q)) =>
              /\ last'.ret = Some(0)
              /\ inventory' = inventory
              /\ sales' = sales
              /\ disk' = disk
              /\ last'.writes = << >>]_vars

C4_Witness ==
    /\ last.op = "sell_item"
    /\ last.out = "unavailable"
    /\ last.ret = Some(0)
    /\ \E n \in DOMAIN inventory : inventory[n].quantity < 1

\* C5: when add_item, a remove_item or update_item of a name in the catalog,
\* or a sell_item that sells has returned, the catalog file holds the
\* catalog; after a sell_item that sells, the sales file holds the sales
\* log as well.
C5_WriteThrough ==
    /\ (\/ last.op = "add_item"
        \/ last.op = "remove_item" /\ last.out = "removed"
        \/ last.op = "update_item" /\ last.out = "updated"
        \/ last.op = "sell_item" /\ last.out = "")
           => HoldsCatalog(disk[inventory_file], inventory)
    /\ (last.op = "sell_item" /\ last.out = "")
           => HoldsSales(disk[sales_file], sales)

C5_Witness ==
    /\ last.op = "sell_item"
    /\ last.out = ""
    /\ DOMAIN inventory = Names
    /\ Len(sales) > 0
    /\ HoldsSales(disk[sales_file], sales)

\* C6: after a run of add_item calls on one name, begun with the name
\* absent and with no other call on that name in between, the item's
\* quantity is the sum of the quantities passed and its price is the price
\* of the first call; add_item on a name in the catalog leaves its price.
C6_AddAccumulates ==
    /\ [](\A n \in Names :
            hist[n].onlyAdds =>
                /\ n \in DOMAIN inventory
                /\ inventory[n].quantity = hist[n].added
                /\ inventory[n].price = hist[n].first)
    /\ [][last'.op = "add_item" =>
            \A n \in DOMAIN inventory, p \in Prices, q \in QtyInputs :
                add_item(n, p, q) => inventory'[n].price = inventory[n].price]_vars

C6_Witness ==
    /\ last.op = "add_item"
    /\ \E n \in Names :
           /\ hist[n].onlyAdds
           /\ hist[n].added = 2
           /\ hist[n].first = 0
           /\ inventory[n].quantity = 2

\* C7: update_item on a name in the catalog changes only the fields passed:
\* without a quantity the quantity stays, without a price the price stays;
\* every other entry of the catalog and the sales log stay as they were.
C7_UpdateFrame ==
    [][last'.op = "update_item" =>
       \A n \in DOMAIN inventory, p \in OptPrices, q \in OptQtyInputs :
          update_item(n, p, q) =>
              /\ DOMAIN inventory' = DOMAIN inventory
              /\ inventory'[n].name = inventory[n].name
              /\ (q = None => inventory'[n].quantity = inventory[n].quantity)
              /\ (p = None => inventory'[n].price = inventory[n].price)
              /\ \A m \in DOMAIN inventory \ {n} : inventory'[m] = inventory[m]
              /\ sales' = sales]_vars

C7_Witness ==
    /\ last.op = "update_item"
    /\ last.out = "updated"
    /\ DOMAIN inventory = Names
    /\ Len(sales) > 0
    /\ \E n \in Names : inventory[n].quantity = 1 /\ inventory[n].price = 1

\* C8: remove_item and update_item on a name that is not in the catalog
\* leave the catalog, the sales log and both files as they were, write no
\* file, and return (None) after reporting the name as not found.
C8_NotFoundNoChange ==
    [][last'.op \in {"remove_item", "update_item"} =>
       \A n \in Names \ DOMAIN inventory :
          /\ remove_item(n) =>
                 /\ UNCHANGED <<inventory, sales, disk>>
                 /\ last'.writes = << >>
                 /\ last'.out = "not found"
                 /\ last'.ret = None
          /\ \A p \in OptPrices, q \in OptQtyInputs :
                 update_item(n, p, q) =>
                     /\ UNCHANGED <<inventory, sales, disk>>
                     /\ last'.writes = << >>
                     /\ last'.out = "not found"
                     /\ last'.ret = None]_vars

C8_Witness ==
    /\ last.out = "not found"
    /\ last.writes = << >>
    /\ DOMAIN inventory # {}
    /\ DOMAIN inventory # Names

\* C9: the sales log only grows at its end: across every call the sales log
\* before the call is a prefix of the sales log after it, so no record is
\* changed or removed by a later add_item, remove_item, update_item or
\* sell_item.
C9_SalesAppendOnly ==
    [][IsPrefix(sales, sales')]_vars

C9_Witness ==
    /\ Len(sales) = 2
    /\ sales[1] # sales[2]
    /\ sales[1].name \notin DOMAIN inventory
    /\ sales[2].name \in DOMAIN inventory
    /\ inventory[sales[2].name].price # sales[2].total_price
    /\ sales[2].quantity = 1

\* C10: every record of the sales log has a quantity > 0 and a
\* total_price >= 0.
C10_SaleRecordsPositive ==
    \A i \in 1 .. Len(sales) :
        sales[i].quantity > 0 /\ sales[i].total_price >= 0

\* C11: for every non-empty catalog the manager reaches, save_inventory
\* followed by load_inventory on the same file gives a catalog with the same
\* names and, under each name, the same name, price and quantity; and a
\* manager constructed on the files starts with the catalog the manager
\* before it ended with.
C11_SaveLoadRoundTrip ==
    /\ [](DOMAIN inventory # {} =>
             SameCatalog(load_inventory(save_inventory(disk, inventory),
                                        EmptyDict).inventory,
                         inventory))
    /\ [][Shopkeeper => SameCatalog(inventory', inventory)]_vars

C11_Witness ==
    /\ last.op = "__init__"
    /\ DOMAIN inventory = Names
    /\ \E n \in Names : inventory[n].price # inventory[n].quantity
    /\ Len(sales) > 0

\* C12: the construction of a manager on a file that does not parse does not
\* raise: the manager starts with an empty catalog (an empty sales log for
\* the sales file) and the load leaves the file as it is; and a file that
\* does not parse stays so until a call writes it, and then it holds the
\* whole catalog (the whole sales log) of the manager.
C12_MalformedLoad ==
    [][/\ Shopkeeper =>
             /\ last'.out = ""
             /\ disk[inventory_file] = Malformed =>
                    inventory' = EmptyDict /\ disk'[inventory_file] = Malformed
             /\ disk[sales_file] = Malformed =>
                    sales' = << >> /\ disk'[sales_file] = Malformed
       /\ (disk[inventory_file] = Malformed /\ disk'[inventory_file] # Malformed) =>
             /\ inventory_file \in Written(last')
             /\ HoldsCatalog(disk'[inventory_file], inventory')
       /\ (disk[sales_file] = Malformed /\ disk'[sales_file] # Malformed) =>
             /\ sales_file \in Written(last')
             /\ HoldsSales(disk'[sales_file], sales')]_vars

C12_Witness ==
    /\ last.op = "__init__"
    /\ disk[inventory_file] = Malformed
    /\ inventory = EmptyDict
    /\ Len(sales) > 0

\* C13: a save is atomic for its file: when a call raises in save_inventory
\* or save_sales, each file holds either the content it had before the call
\* or the whole new content, never an empty or a partial text.
C13_SaveAtomic ==
    [][last'.out = "raised" =>
          /\ \/ disk'[inventory_file] = disk[inventory_file]
             \/ HoldsCatalog(disk'[inventory_file], inventory')
          /\ \/ disk'[sales_file] = disk[sales_file]
             \/ HoldsSales(disk'[sales_file], sales')]_vars

\* C14: sell_item returns 0 exactly when it changes nothing: a call that
\* returns 0 leaves the catalog and the sales log as they were, and a call
\* that takes stock and appends a record returns a total that is not 0.
C14_ZeroIffNoChange ==
    [][last'.op = "sell_item" =>
          (last'.ret = Some(0) <=> (inventory' = inventory /\ sales' = sales))]_vars

\* C15: remove_item of a name in the catalog deletes that entry and nothing
\* else: search_item then reports the name as not found, the other entries
\* and the sales log are as before; and a name search_item reports as not
\* found stays so across every call and every construction of a manager,
\* except an add_item with that name.
C15_RemovedStaysAbsent ==
    [][/\ last'.op = "remove_item" =>
             \A n \in DOMAIN inventory :
                 remove_item(n) =>
                     /\ search_item(inventory', n) = "not found"
                     /\ DOMAIN inventory' = DOMAIN inventory \ {n}
                     /\ \A m \in DOMAIN inventory' : inventory'[m] = inventory[m]
                     /\ sales' = sales
       /\ \A n \in Names :
             (/\ search_item(inventory, n) = "not found"
              /\ search_item(inventory', n) # "not found") =>
                 \E price \in Prices, quantity \in QtyInputs :
                     add_item(n, price, quantity)]_vars

C15_Witness ==
    /\ Len(sales) > 0
    /\ search_item(inventory, sales[1].name) = "not found"
    /\ last.op = "update_item"
    /\ last.out = "updated"

\* C16: in every state the total generate_report computes, the sum of
\* total_price over the records of the sales log, is the sum of the values
\* the sell_item calls of the manager have returned, plus the totals of the
\* records loaded at construction.
C16_ReportTotal ==
    generate_report_total(sales) = ledger.loaded + ledger.returned

\* C16, amended: the total generate_report computes is the sum of the values
\* the sell_item calls of the manager have returned, plus the totals of the
\* records loaded at construction, plus the totals of the records appended
\* by the sell_item calls that raised in a save.
C16_ReportTotalAmended ==
    generate_report_total(sales) =
        ledger.loaded + ledger.returned + ledger.unreturned

C16_Witness ==
    /\ Len(sales) = 2
    /\ ledger.loaded > 0
    /\ ledger.unreturned > 0
    /\ last.op \in {"add_item", "update_item"}

\* C17: once a write has failed, the next call that changes the state and
\* returns leaves both files equal to the memory: when it returns, the
\* inventory file holds the catalog and the sales file holds the sales log.
\* Stated for the calls made while both files parse, so that a file that was
\* unparseable from the start or emptied by the failed write is not what
\* refutes it.
C17_BothStoresAfterSuccess ==
    [][(/\ ledger.failures > 0
        /\ disk[inventory_file].kind = "json"
        /\ disk[sales_file].kind = "json"
        /\ Completed(last')) =>
          /\ HoldsCatalog(disk'[inventory_file], inventory')
          /\ HoldsSales(disk'[sales_file], sales')]_vars

\* C17, amended: a call that raises in a save keeps the change it made in
\* memory; every later call that changes the state and returns leaves the
\* inventory file equal to the catalog, and every later sell_item that
\* returns after a sale leaves the sales file equal to the sales log; the
\* other calls do not write the sales file.
C17_EachStoreAfterItsSave ==
    [][/\ last'.out = "raised" =>
             IF last'.op = "sell_item"
             THEN Len(sales') = Len(sales) + 1 /\ IsPrefix(sales, sales')
             ELSE sales' = sales
       /\ Completed(last') =>
             /\ HoldsCatalog(disk'[inventory_file], inventory')
             /\ IF last'.op = "sell_item"
                THEN HoldsSales(disk'[sales_file], sales')
                ELSE disk'[sales_file] = disk[sales_file]]_vars

C17_Witness ==
    /\ ledger.failures > 0
    /\ Completed(last)
    /\ last.op = "add_item"
    /\ HoldsCatalog(disk[inventory_file], inventory)
    /\ disk[sales_file].kind = "json"
    /\ Len(disk[sales_file].value) < Len(sales)

C19_StockConservation ==
    \A n \in Names :
        ~ledger.touched[n] =>
            InStock(inventory, n) = ledger.added[n] - SoldQuantity(sales, n)

C19_Witness ==
    \E n \in Names :
        /\ ~ledger.touched[n]
        /\ ledger.added[n] > InStock(inventory, n)
        /\ InStock(inventory, n) > 0
        /\ SoldQuantity(sales, n) > 0
        /\ last.op = "add_item"

====
